---- MODULE Spec2Model ----
\* A model of GBPlusTree: the on-page format of entries (entry.py), the
\* serializers of keys (serializer.py), the nodes of the tree (node.py) and the
\* page store with its write-ahead log (memory.py).
EXTENDS Integers, Sequences, FiniteSets, TLC

VARIABLES
    tree_conf,   \* TreeConf: page_size, order, key_size, value_size, serializer
    entry,       \* the Record or Reference under test (its fields), cls = "" when none
    dumped,      \* what entry.dump() gave: bytes, or the exception raised
    loaded,      \* what Record(data=...) / Reference(data=...) built, or the exception
    node,        \* a Node: its class, page, next_page and entries
    op,          \* the Node method called last
    arg,         \* the argument of that call
    ret,         \* what that call returned or raised
    freshKeys,   \* every insert_entry since the node was built was given a key not in it
    onlyInserts, \* insert_entry is the only method called since the node was built
    mainFile,    \* the bytes of the tree's backing file
    walFile,     \* the bytes of <filename>-wal, absent before the first open
    wal,         \* the WAL object of the session, open = FALSE when there is none
    mem,         \* the FileMemory object of the session, open = FALSE when there is none
    lastSet,     \* per page, the node of the last set_node that returned
    mret,        \* the last FileMemory call and what it returned
    preOpen,     \* when the WAL was last opened: the two files, the page size asked
                 \* for, and whether the process had stopped since the last session
    page_data,   \* what node.dump() gave: the bytes of the page, or the exception
    page_node,   \* what Node.from_page_data(tree_conf, page_data, node.page) gave
    wr_pc,       \* where write_to_file is: "" not called, "while", "fsync", "return"
    wr_data,     \* write_to_file's data
    wr_fsync,    \* write_to_file's fsync
    written,     \* write_to_file's written
    writes,      \* the number of file_fd.write calls write_to_file has made
    accepted,    \* the bytes file_fd.write has accepted, in call order
    starved,     \* some file_fd.write call of this write_to_file accepted no byte
    synced       \* fsync_file_and_dir has been called by write_to_file

entryVars == <<entry, dumped, loaded>>
nodeVars == <<node, op, arg, ret, freshKeys, onlyInserts>>
storeVars == <<mainFile, walFile, wal, mem, lastSet, mret, preOpen>>
pageVars == <<page_data, page_node>>
writeVars == <<wr_pc, wr_data, wr_fsync, written, writes, accepted, starved, synced>>
vars == <<tree_conf, entry, dumped, loaded, node, op, arg, ret, freshKeys, onlyInserts,
          mainFile, walFile, wal, mem, lastSet, mret, preOpen,
          page_data, page_node, wr_pc, wr_data, wr_fsync, written, writes, accepted,
          starved, synced>>

-----------------------------------------------------------------------------
\* Bounds of the model.

\* key_size of the TreeConf, in bytes
KeySize == 2
\* value_size of the TreeConf, in bytes
ValueSize == 2
\* the largest order of a TreeConf
MaxOrder == 3
\* the largest page number handed to the page store
MaxPage == 3
\* the most WAL frames written in one session
MaxFrames == 2
\* the most entries of a node that is dumped
MaxEntries == 4
\* the most bytes handed to write_to_file
MaxData == 3
\* the most file_fd.write calls of one write_to_file that are followed
MaxWrites == 6

-----------------------------------------------------------------------------
\* const.py

NODE_TYPE_BYTES == 1
USED_PAGE_LENGTH_BYTES == 3
PAGE_REFERENCE_BYTES == 4
FRAME_TYPE_BYTES == 1
USED_KEY_LENGTH_BYTES == 2
USED_VALUE_LENGTH_BYTES == 2
OTHER_BYTES == 4

\* Python's None, and a value that is not None.
None == <<>>
Some(x) == <<x>>

\* The outcome of a call: the value returned, or the exception raised.
Ok(v) == [err |-> "", val |-> v]
Raise(e) == [err |-> e, val |-> <<>>]

-----------------------------------------------------------------------------
\* int.to_bytes / int.from_bytes with ENDIAN = 'little', bytes(n), slices.

RECURSIVE Shr(_, _)
Shr(n, k) == IF k = 0 THEN n ELSE Shr(n \div 256, k - 1)

\* n.to_bytes(len, 'little') succeeds: n is not negative and needs at most len bytes
FitsBytes(n, len) == n >= 0 /\ Shr(n, len) = 0

\* n.to_bytes(len, 'big')
ToBytes_big(n, len) == [i \in 1..len |-> Shr(n, len - i) % 256]

\* n.to_bytes(len, ENDIAN)
ToBytes(n, len) == [i \in 1..len |-> Shr(n, i - 1) % 256]

RECURSIVE FromBytes(_)
FromBytes(b) == IF b = <<>> THEN 0 ELSE b[1] + 256 * FromBytes(Tail(b))

\* bytes(n): n zero bytes
Zeros(n) == [i \in 1..n |-> 0]

\* data[a:b] of Python, 0-based and half-open, clipped to the data
Slice(b, from, to) ==
    LET hi == IF to < Len(b) THEN to ELSE Len(b)
    IN  IF from >= hi THEN <<>> ELSE [i \in 1..(hi - from) |-> b[from + i]]

-----------------------------------------------------------------------------
\* serializer.py. An int key is an integer; a str key is the sequence of its
\* code points.

\* str.encode('utf-8') of one code point below 2^16
Utf8Char(c) ==
    IF c < 128 THEN <<c>>
    ELSE IF c < 2048 THEN <<192 + (c \div 64), 128 + (c % 64)>>
    ELSE <<224 + (c \div 4096), 128 + ((c \div 64) % 64), 128 + (c % 64)>>

RECURSIVE Utf8Encode(_)
Utf8Encode(s) == IF s = <<>> THEN <<>> ELSE Utf8Char(s[1]) \o Utf8Encode(Tail(s))

\* bytes.decode('utf-8'): the code points, or <<-1>> where Python raises
\* UnicodeDecodeError
RECURSIVE Utf8Decode(_)
Utf8Decode(b) ==
    IF b = <<>> THEN <<>>
    ELSE LET n == IF b[1] < 128 THEN 1
                  ELSE IF b[1] >= 192 /\ b[1] < 224 THEN 2
                  ELSE IF b[1] >= 224 /\ b[1] < 240 THEN 3
                  ELSE 0
         IN  IF n = 0 \/ Len(b) < n
                \/ \E i \in 2..n : b[i] < 128 \/ b[i] >= 192
             THEN <<-1>>
             ELSE LET c == IF n = 1 THEN b[1]
                           ELSE IF n = 2 THEN (b[1] - 192) * 64 + (b[2] - 128)
                           ELSE (b[1] - 224) * 4096 + (b[2] - 128) * 64 + (b[3] - 128)
                      rest == Utf8Decode(Slice(b, n, Len(b)))
                  IN  IF rest = <<-1>> THEN <<-1>> ELSE <<c>> \o rest

\* Serializer.serialize(obj, key_size)
Serialize(conf, key, key_size) ==
    IF conf.serializer = "IntSerializer"
    THEN IF FitsBytes(key, key_size) THEN Ok(ToBytes(key, key_size))
         ELSE Raise("OverflowError")
    ELSE IF Len(Utf8Encode(key)) <= key_size THEN Ok(Utf8Encode(key))
         ELSE Raise("AssertionError")

\* Serializer.deserialize(data)
Deserialize(conf, data) ==
    IF conf.serializer = "IntSerializer" THEN FromBytes(data) ELSE Utf8Decode(data)

\* Serializer.deserialize(data) raises: only bytes.decode can
DeserializeRaises(conf, data) ==
    conf.serializer = "StrSerializer" /\ Utf8Decode(data) = <<-1>>

-----------------------------------------------------------------------------
\* entry.py: Record

\* Record.length
Record_length(conf) ==
    USED_KEY_LENGTH_BYTES + conf.key_size
    + USED_VALUE_LENGTH_BYTES + conf.value_size
    + PAGE_REFERENCE_BYTES

\* Record.load(data), on a Record whose fields are those of r
Record_load(conf, r, data) ==
    IF Len(data) # Record_length(conf) THEN Raise("AssertionError")
    ELSE
    LET end_used_key_length == USED_KEY_LENGTH_BYTES
        used_key_length == FromBytes(Slice(data, 0, end_used_key_length))
        end_key == end_used_key_length + used_key_length
        start_used_value_length == end_used_key_length + conf.key_size
        end_used_value_length == start_used_value_length + USED_VALUE_LENGTH_BYTES
        used_value_length ==
            FromBytes(Slice(data, start_used_value_length, end_used_value_length))
        end_value == end_used_value_length + used_value_length
        start_overflow == end_used_value_length + conf.value_size
        end_overflow == start_overflow + PAGE_REFERENCE_BYTES
        overflow_page == FromBytes(Slice(data, start_overflow, end_overflow))
    IN  IF ~(0 <= used_key_length /\ used_key_length <= conf.key_size)
        THEN Raise("AssertionError")
        ELSE IF DeserializeRaises(conf, Slice(data, end_used_key_length, end_key))
        THEN Raise("UnicodeDecodeError")
        ELSE IF ~(0 <= used_value_length /\ used_value_length <= conf.value_size)
        THEN Raise("AssertionError")
        ELSE Ok([cls |-> "Record",
                 key |-> Deserialize(conf, Slice(data, end_used_key_length, end_key)),
                 value |-> IF overflow_page # 0 THEN None
                           ELSE Some(Slice(data, end_used_value_length, end_value)),
                 overflow_page |-> IF overflow_page # 0 THEN Some(overflow_page)
                                   ELSE None])

\* Record.__init__(tree_conf, key, value, data, overflow_page); value, data and
\* overflow_page are None or Some(..)
Record_init(conf, key, value, data, overflow_page) ==
    LET r0 == [cls |-> "Record", key |-> key, value |-> value,
               overflow_page |-> overflow_page]
        r1 == IF data # None /\ data # Some(<<>>)
              THEN Record_load(conf, r0, data[1]) ELSE Ok(r0)
    IN  IF r1.err # "" THEN r1
        ELSE IF value # None /\ value # Some(<<>>)
        THEN IF r1.val.value = None THEN Raise("TypeError")
             ELSE IF Len(r1.val.value[1]) <= conf.value_size THEN r1
             ELSE Raise("AssertionError")
        ELSE r1

\* the assertion Record.dump() would make had it been written with 'and'
Record_dump_assert_and(r) == r.value = None /\ r.overflow_page = None

\* the assertion Record.dump() opens with
Record_dump_assert(r) == r.value = None \/ r.overflow_page = None

\* Record.dump()
Record_dump(conf, r) ==
    IF ~Record_dump_assert(r) THEN Raise("AssertionError")
    ELSE
    LET k == Serialize(conf, r.key, conf.key_size)
        key_as_bytes == k.val
        used_key_length == Len(key_as_bytes)
        overflow_page == IF r.overflow_page = None THEN 0 ELSE r.overflow_page[1]
        value == IF overflow_page # 0 THEN <<>> ELSE r.value[1]
        used_value_length == Len(value)
    IN  IF k.err # "" THEN k
        ELSE IF overflow_page = 0 /\ r.value = None THEN Raise("TypeError")
        ELSE IF ~FitsBytes(used_key_length, USED_KEY_LENGTH_BYTES)
        THEN Raise("OverflowError")
        ELSE IF conf.key_size - used_key_length < 0 THEN Raise("ValueError")
        ELSE IF ~FitsBytes(used_value_length, USED_VALUE_LENGTH_BYTES)
        THEN Raise("OverflowError")
        ELSE IF conf.value_size - used_value_length < 0 THEN Raise("ValueError")
        ELSE IF ~FitsBytes(overflow_page, PAGE_REFERENCE_BYTES)
        THEN Raise("OverflowError")
        ELSE Ok(ToBytes(used_key_length, USED_KEY_LENGTH_BYTES)
                \o key_as_bytes
                \o Zeros(conf.key_size - used_key_length)
                \o ToBytes(used_value_length, USED_VALUE_LENGTH_BYTES)
                \o value
                \o Zeros(conf.value_size - used_value_length)
                \o ToBytes(overflow_page, PAGE_REFERENCE_BYTES))

-----------------------------------------------------------------------------
\* entry.py: Reference

\* Reference.length
Reference_length(conf) ==
    2 * PAGE_REFERENCE_BYTES + USED_KEY_LENGTH_BYTES + conf.key_size

\* Reference.load(data)
Reference_load(conf, r, data) ==
    IF Len(data) # Reference_length(conf) THEN Raise("AssertionError")
    ELSE
    LET end_before == PAGE_REFERENCE_BYTES
        end_used_key_length == end_before + USED_KEY_LENGTH_BYTES
        used_key_length == FromBytes(Slice(data, end_before, end_used_key_length))
        end_key == end_used_key_length + used_key_length
        start_after == end_used_key_length + conf.key_size
        end_after == start_after + PAGE_REFERENCE_BYTES
    IN  IF ~(0 <= used_key_length /\ used_key_length <= conf.key_size)
        THEN Raise("AssertionError")
        ELSE IF DeserializeRaises(conf, Slice(data, end_used_key_length, end_key))
        THEN Raise("UnicodeDecodeError")
        ELSE Ok([cls |-> "Reference",
                 key |-> Deserialize(conf, Slice(data, end_used_key_length, end_key)),
                 before |-> Some(FromBytes(Slice(data, 0, end_before))),
                 after |-> Some(FromBytes(Slice(data, start_after, end_after)))])

\* Reference.__init__(tree_conf, key, before, after, data); before and after are
\* None or Some(int), data is None or Some(bytes)
Reference_init(conf, key, before, after, data) ==
    LET r0 == [cls |-> "Reference", key |-> key, before |-> before, after |-> after]
    IN  IF data # None /\ data # Some(<<>>)
        THEN Reference_load(conf, r0, data[1]) ELSE Ok(r0)

\* Reference.dump()
Reference_dump(conf, r) ==
    IF r.before = None \/ r.after = None THEN Raise("AssertionError")
    ELSE
    LET k == Serialize(conf, r.key, conf.key_size)
        key_as_bytes == k.val
        used_key_length == Len(key_as_bytes)
    IN  IF k.err # "" THEN k
        ELSE IF ~FitsBytes(r.before[1], PAGE_REFERENCE_BYTES)
        THEN Raise("OverflowError")
        ELSE IF ~FitsBytes(used_key_length, USED_VALUE_LENGTH_BYTES)
        THEN Raise("OverflowError")
        ELSE IF conf.key_size - used_key_length < 0 THEN Raise("ValueError")
        ELSE IF ~FitsBytes(r.after[1], PAGE_REFERENCE_BYTES)
        THEN Raise("OverflowError")
        ELSE Ok(ToBytes(r.before[1], PAGE_REFERENCE_BYTES)
                \o ToBytes(used_key_length, USED_VALUE_LENGTH_BYTES)
                \o key_as_bytes
                \o Zeros(conf.key_size - used_key_length)
                \o ToBytes(r.after[1], PAGE_REFERENCE_BYTES))

\* entry.dump() of either class
Entry_dump(conf, e) ==
    IF e.cls = "Record" THEN Record_dump(conf, e) ELSE Reference_dump(conf, e)

-----------------------------------------------------------------------------
\* The configurations and the inputs the model draws from.

\* page_size of the TreeConf
PageSize == 64

Serializers == {"IntSerializer", "StrSerializer"}

Conf(order, serializer) ==
    [page_size |-> PageSize, order |-> order, key_size |-> KeySize,
     value_size |-> ValueSize, serializer |-> serializer]

Confs == {Conf(o, s) : o \in 2..MaxOrder, s \in Serializers}

\* int keys: small ones, the largest that fits key_size, the first that does not
IntKeys == {0, 1, 42, 256, 256^KeySize - 1, 256^KeySize}

\* str keys: 'a', e-acute and the euro sign take 1, 2 and 3 bytes in UTF-8
Chars == {97, 233, 8364}
StrKeys == UNION {[1..n -> Chars] : n \in 0..KeySize}

KeysOf(conf) == IF conf.serializer = "IntSerializer" THEN IntKeys ELSE StrKeys

\* the key's encoding fits key_size
KeyFits(conf, key) ==
    IF conf.serializer = "IntSerializer"
    THEN key >= 0 /\ key < 256^conf.key_size
    ELSE Len(Utf8Encode(key)) <= conf.key_size

\* inline values: None, or bytes of length 0..value_size+1
ValueBytes == {0, 255}
Values == {None} \cup {Some(v) : v \in UNION {[1..n -> ValueBytes] : n \in 0..(ValueSize + 1)}}

\* page ids: None, 0 (the reserved page), small ones and the largest TLC can hold
PageIds == {0, 1, 5, 2147483647}
OptPageIds == {None} \cup {Some(p) : p \in PageIds}

NoEntry == [cls |-> ""]
NoCall == [err |-> "-", val |-> <<>>]

-----------------------------------------------------------------------------
\* Entries: built, dumped, and loaded back from the dumped bytes.

InitEntryVars ==
    /\ entry = NoEntry
    /\ dumped = NoCall
    /\ loaded = NoCall

\* r = Record(tree_conf, key, value, overflow_page=overflow_page)
RecordNew ==
    \E key \in KeysOf(tree_conf), value \in Values, overflow_page \in OptPageIds :
        LET r == Record_init(tree_conf, key, value, None, overflow_page)
        IN  /\ entry = NoEntry
            /\ r.err = ""
            /\ entry' = r.val
            /\ dumped' = NoCall
            /\ loaded' = NoCall
            /\ UNCHANGED <<tree_conf, nodeVars, storeVars, pageVars, writeVars>>

\* r = Reference(tree_conf, key, before, after)
ReferenceNew ==
    \E key \in KeysOf(tree_conf), before \in OptPageIds, after \in OptPageIds :
        LET r == Reference_init(tree_conf, key, before, after, None)
        IN  /\ entry = NoEntry
            /\ r.err = ""
            /\ entry' = r.val
            /\ dumped' = NoCall
            /\ loaded' = NoCall
            /\ UNCHANGED <<tree_conf, nodeVars, storeVars, pageVars, writeVars>>

\* data = r.dump()
EntryDump ==
    /\ entry # NoEntry
    /\ dumped = NoCall
    /\ dumped' = Entry_dump(tree_conf, entry)
    /\ UNCHANGED <<tree_conf, entry, loaded, nodeVars, storeVars, pageVars, writeVars>>

\* r2 = Record(tree_conf, data=data) / Reference(tree_conf, data=data)
EntryLoad ==
    /\ dumped.err = ""
    /\ loaded = NoCall
    /\ loaded' = IF entry.cls = "Record"
                 THEN Record_init(tree_conf, None, None, Some(dumped.val), None)
                 ELSE Reference_init(tree_conf, None, None, None, Some(dumped.val))
    /\ UNCHANGED <<tree_conf, entry, dumped, nodeVars, storeVars, pageVars, writeVars>>

NextEntry == RecordNew \/ ReferenceNew \/ EntryDump \/ EntryLoad

-----------------------------------------------------------------------------
\* node.py

\* Entry.__lt__ and Entry.__eq__: entries compare by key alone
EntryLt(a, b) == a.key < b.key
EntryEq(a, b) == a.key = b.key

\* bisect.bisect_right(a, x, lo, hi), lo and hi 0-based as in Python
RECURSIVE BisectRight(_, _, _, _)
BisectRight(a, x, lo, hi) ==
    IF lo < hi
    THEN LET mid == (lo + hi) \div 2
         IN  IF EntryLt(x, a[mid + 1]) THEN BisectRight(a, x, lo, mid)
             ELSE BisectRight(a, x, mid + 1, hi)
    ELSE lo

\* bisect.bisect_left(a, x, lo, hi)
RECURSIVE BisectLeft(_, _, _, _)
BisectLeft(a, x, lo, hi) ==
    IF lo < hi
    THEN LET mid == (lo + hi) \div 2
         IN  IF EntryLt(a[mid + 1], x) THEN BisectLeft(a, x, mid + 1, hi)
             ELSE BisectLeft(a, x, lo, mid)
    ELSE lo

\* list.insert(i, x), i 0-based
ListInsert(a, i, x) == SubSeq(a, 1, i) \o <<x>> \o SubSeq(a, i + 1, Len(a))

\* list.pop(): the list left when the index is not passed on
ListPop_last(a, i) == SubSeq(a, 1, Len(a) - 1)

\* list.pop(i), i 0-based and in range: the list left
ListPop(a, i) == SubSeq(a, 1, i) \o SubSeq(a, i + 2, Len(a))

\* bisect.insort(a, x)
Insort(a, x) == ListInsert(a, BisectRight(a, x, 0, Len(a)), x)

\* list.index(x): the 0-based index of the first element equal to x
ListIndex(a, x) == CHOOSE i \in 0..(Len(a) - 1) :
    /\ EntryEq(a[i + 1], x)
    /\ \A j \in 0..(i - 1) : ~EntryEq(a[j + 1], x)

\* the classes of nodes, and the class of their entries
RecordNodes == {"LonelyRootNode", "LeafNode"}
ReferenceNodes == {"RootNode", "InternalNode"}
NodeClasses == RecordNodes \cup ReferenceNodes
EntryClass(cls) == IF cls \in RecordNodes THEN "Record" ELSE "Reference"

\* math.ceil(order / 2)
CeilHalf(order) == (order + 1) \div 2

\* min_children and max_children, as the classes' __init__ set them
MinChildren(conf, cls) ==
    CASE cls = "LonelyRootNode" -> 0
      [] cls = "RootNode" -> 2
      [] cls = "InternalNode" -> CeilHalf(conf.order)
      [] cls = "LeafNode" -> CeilHalf(conf.order) - 1

MaxChildren(conf, cls) ==
    CASE cls = "LonelyRootNode" -> conf.order - 1
      [] cls = "RootNode" -> conf.order
      [] cls = "InternalNode" -> conf.order
      [] cls = "LeafNode" -> conf.order - 1

\* ReferenceNode.num_children, had it been written without the test for no entries
ReferenceNode_num_children_plain(n) == Len(n.entries) + 1

\* ReferenceNode.num_children
ReferenceNode_num_children(n) == IF n.entries # <<>> THEN Len(n.entries) + 1 ELSE 0

\* RecordNode.num_children
RecordNode_num_children(n) == Len(n.entries)

\* node.num_children
NumChildren(n) ==
    IF n.cls \in RecordNodes THEN RecordNode_num_children(n)
    ELSE ReferenceNode_num_children(n)

\* Node.can_add_entry and Node.can_delete_entry
CanAddEntry(conf, n) == NumChildren(n) < MaxChildren(conf, n.cls)
CanDeleteEntry(conf, n) == NumChildren(n) > MinChildren(conf, n.cls)

\* Node.__init__(tree_conf, page=page, next_page=next_page), no data.
\* LonelyRootNode.__init__ does not pass its next_page on, and the __init__ of
\* the Reference-holding classes takes none: only a LeafNode keeps it.
Node_init(cls, page, next_page) ==
    [cls |-> cls, page |-> page,
     next_page |-> IF cls = "LeafNode" THEN next_page ELSE None,
     entries |-> <<>>]

\* the entries after Node.insert_entry(entry), had it appended the entry as
\* insert_entry_at_the_end does
Node_insert_entry_append(entries, e) == Append(entries, e)

\* Node.insert_entry(entry): the entries after it
Node_insert_entry(entries, e) == Insort(entries, e)

\* ReferenceNode.insert_entry(entry), had it inserted and left the neighbours alone
ReferenceNode_insert_entry_nofix(entries, e) == Node_insert_entry(entries, e)

\* ReferenceNode.insert_entry(entry): the entries after it. j is where insort put
\* the entry, i what list.index finds: the first entry with its key.
ReferenceNode_insert_entry(entries, e) ==
    LET j == BisectRight(entries, e, 0, Len(entries))
        e1 == Node_insert_entry(entries, e)
        i == ListIndex(e1, e)
        e2 == IF i > 0 THEN [e1 EXCEPT ![i].after = e1[j + 1].before] ELSE e1
        e3 == IF i + 1 < Len(e2) THEN [e2 EXCEPT ![i + 2].before = e2[j + 1].after]
              ELSE e2
    IN  e3

\* Node._find_entry_index(key): the 0-based index, or ValueError
Node_find_entry_index(cls, entries, key) ==
    LET e == [cls |-> EntryClass(cls), key |-> key]
        i == BisectLeft(entries, e, 0, Len(entries))
    IN  IF i # Len(entries) /\ EntryEq(entries[i + 1], e) THEN Ok(i)
        ELSE Raise("ValueError")

\* what would stay had split_entries() rounded the midpoint up
Node_split_keep_ceil(entries) == SubSeq(entries, 1, (Len(entries) + 1) \div 2)

\* Node.split_entries(): what stays, and what is returned
Node_split_keep(entries) == SubSeq(entries, 1, Len(entries) \div 2)
Node_split_rv(entries) == SubSeq(entries, Len(entries) \div 2 + 1, Len(entries))

\* _node_type_int of the classes
Node_type_int(cls) ==
    CASE cls = "LonelyRootNode" -> 1
      [] cls = "RootNode" -> 2
      [] cls = "InternalNode" -> 3
      [] cls = "LeafNode" -> 4

\* self._entry_class(self._tree_conf).length
Node_entry_length(conf, cls) ==
    IF EntryClass(cls) = "Record" THEN Record_length(conf) ELSE Reference_length(conf)

\* the loop of Node.dump() over entries[i..]: the bytes of the entries one after
\* the other, or the exception of the first entry whose dump() raises
RECURSIVE Node_dump_entries(_, _, _)
Node_dump_entries(conf, entries, i) ==
    IF i > Len(entries) THEN Ok(<<>>)
    ELSE LET d == Entry_dump(conf, entries[i])
             rest == Node_dump_entries(conf, entries, i + 1)
         IN  IF d.err # "" THEN d
             ELSE IF rest.err # "" THEN rest
             ELSE Ok(d.val \o rest.val)

\* the first assertion of Node.dump(), had it refused a page filled to its
\* last byte
Node_dump_assert_used_strict(conf, used_length) ==
    4 <= used_length /\ used_length + 4 < conf.page_size

\* the first assertion of Node.dump()
Node_dump_assert_used(conf, used_length) ==
    4 <= used_length /\ used_length < conf.page_size

\* Node.dump()
Node_dump(conf, n) ==
    LET d == Node_dump_entries(conf, n.entries, 1)
        used_length == Len(d.val) + 4
        next_page == IF n.next_page = None THEN 0 ELSE n.next_page[1]
        header == ToBytes(Node_type_int(n.cls), NODE_TYPE_BYTES)
                  \o ToBytes(used_length, USED_PAGE_LENGTH_BYTES)
                  \o ToBytes(next_page, PAGE_REFERENCE_BYTES)
        data == header \o d.val
        padding == conf.page_size - Len(data)
    IN  IF d.err # "" THEN d
        ELSE IF ~Node_dump_assert_used(conf, used_length) THEN Raise("AssertionError")
        ELSE IF ~FitsBytes(used_length, USED_PAGE_LENGTH_BYTES)
        THEN Raise("OverflowError")
        ELSE IF ~FitsBytes(next_page, PAGE_REFERENCE_BYTES) THEN Raise("OverflowError")
        ELSE IF padding < 0 THEN Raise("AssertionError")
        ELSE IF Len(data \o Zeros(padding)) # conf.page_size
        THEN Raise("AssertionError")
        ELSE Ok(data \o Zeros(padding))

\* the loop of Node.load(data) from start_offset on: the entries built from the
\* slices of the page, or the exception of the first that cannot be built
RECURSIVE Node_load_entries(_, _, _, _, _)
Node_load_entries(conf, cls, data, start_offset, stop) ==
    IF start_offset >= stop THEN Ok(<<>>)
    ELSE LET entry_length == Node_entry_length(conf, cls)
             entry_data == Slice(data, start_offset, start_offset + entry_length)
             e == IF EntryClass(cls) = "Record"
                  THEN Record_init(conf, None, None, Some(entry_data), None)
                  ELSE Reference_init(conf, None, None, None, Some(entry_data))
             rest == Node_load_entries(conf, cls, data, start_offset + entry_length, stop)
         IN  IF e.err # "" THEN e
             ELSE IF rest.err # "" THEN rest
             ELSE Ok(<<e.val>> \o rest.val)

\* the next_page Node.load(data) would restore had it kept the 0 of the header
Node_load_next_page_raw(next_page) == Some(next_page)

\* the next_page Node.load(data) restores
Node_load_next_page(next_page) == IF next_page = 0 THEN None ELSE Some(next_page)

\* Node.load(data) on the node n: the node after it, or the exception
Node_load(conf, n, data) ==
    IF Len(data) # conf.page_size THEN Raise("AssertionError")
    ELSE
    LET end_used_length_bytes == NODE_TYPE_BYTES + USED_PAGE_LENGTH_BYTES
        used_length == FromBytes(Slice(data, NODE_TYPE_BYTES, end_used_length_bytes))
        end_reference_bytes == end_used_length_bytes + PAGE_REFERENCE_BYTES
        next_page == FromBytes(Slice(data, end_used_length_bytes, end_reference_bytes))
        es == Node_load_entries(conf, n.cls, data, end_reference_bytes,
                                used_length + end_reference_bytes - 4)
    IN  IF es.err # "" THEN es
        ELSE Ok([n EXCEPT !.next_page = Node_load_next_page(next_page),
                          !.entries = n.entries \o es.val])

\* cls(tree_conf, data, page): Node.__init__ loads data unless it is empty
Node_init_data(conf, cls, data, page) ==
    IF data # <<>> THEN Node_load(conf, Node_init(cls, page, None), data)
    ELSE Ok(Node_init(cls, page, None))

\* Node.from_page_data(tree_conf, data, page)
Node_from_page_data(conf, data, page) ==
    LET node_type_int == FromBytes(Slice(data, 0, NODE_TYPE_BYTES))
    IN  IF node_type_int = 1 THEN Node_init_data(conf, "LonelyRootNode", data, page)
        ELSE IF node_type_int = 2 THEN Node_init_data(conf, "RootNode", data, page)
        ELSE IF node_type_int = 3 THEN Node_init_data(conf, "InternalNode", data, page)
        ELSE IF node_type_int = 4 THEN Node_init_data(conf, "LeafNode", data, page)
        ELSE Raise("AssertionError")

-----------------------------------------------------------------------------
\* A node and the calls made on it.

\* the keys of the Records and of the References put into nodes, and the child
\* pages of the References
NodeKeys == {10, 20, 30, 40}
ReferenceKeys == {10, 20, 30}
ChildPages == {1, 2}

\* the page of the node
NodePage == 3

\* the entries a caller inserts into a node of class cls
EntriesFor(conf, cls) ==
    IF cls \in RecordNodes
    THEN {Record_init(conf, k, Some(<<k>>), None, None).val : k \in NodeKeys}
    ELSE {Reference_init(conf, k, Some(b), Some(a), None).val :
            k \in ReferenceKeys, b \in ChildPages, a \in ChildPages}

NoNode == [cls |-> "", page |-> 0, next_page |-> None, entries |-> <<>>]
NoArg == [cls |-> ""]

InitNodeVars ==
    /\ node = NoNode
    /\ op = ""
    /\ arg = NoArg
    /\ ret = NoCall
    /\ freshKeys = FALSE
    /\ onlyInserts = FALSE

\* node = LonelyRootNode(tree_conf, page=page), RootNode(..), InternalNode(..),
\* LeafNode(..)
NodeNew ==
    \E cls \in NodeClasses :
        /\ node' = Node_init(cls, NodePage, None)
        /\ op' = "__init__"
        /\ arg' = NoArg
        /\ ret' = NoCall
        /\ freshKeys' = TRUE
        /\ onlyInserts' = TRUE
        /\ UNCHANGED <<tree_conf, entryVars, storeVars, pageVars, writeVars>>

\* node.insert_entry(entry); a node is split once it exceeds max_children, so it
\* is never given more than order entries
InsertEntry ==
    \E e \in EntriesFor(tree_conf, node.cls) :
        /\ node.cls # ""
        /\ Len(node.entries) < tree_conf.order
        /\ node' = [node EXCEPT !.entries =
                        IF node.cls \in ReferenceNodes
                        THEN ReferenceNode_insert_entry(node.entries, e)
                        ELSE Node_insert_entry(node.entries, e)]
        /\ op' = "insert_entry"
        /\ arg' = e
        /\ ret' = Ok(None)
        /\ freshKeys' = (freshKeys /\ \A i \in 1..Len(node.entries) :
                                        node.entries[i].key # e.key)
        /\ UNCHANGED onlyInserts
        /\ UNCHANGED <<tree_conf, entryVars, storeVars, pageVars, writeVars>>

\* node.remove_entry(key)
RemoveEntry ==
    \E key \in NodeKeys :
        LET i == Node_find_entry_index(node.cls, node.entries, key)
        IN  /\ node.cls # ""
            /\ node' = IF i.err = ""
                       THEN [node EXCEPT !.entries = ListPop(node.entries, i.val)]
                       ELSE node
            /\ op' = "remove_entry"
            /\ arg' = [cls |-> "key", key |-> key]
            /\ ret' = IF i.err = "" THEN Ok(None) ELSE i
            /\ onlyInserts' = FALSE
            /\ UNCHANGED <<tree_conf, freshKeys, entryVars, storeVars, pageVars, writeVars>>

\* node.get_entry(key)
GetEntry ==
    \E key \in NodeKeys :
        LET i == Node_find_entry_index(node.cls, node.entries, key)
        IN  /\ node.cls # ""
            /\ op' = "get_entry"
            /\ arg' = [cls |-> "key", key |-> key]
            /\ ret' = IF i.err = "" THEN Ok(node.entries[i.val + 1]) ELSE i
            /\ UNCHANGED <<tree_conf, node, freshKeys, onlyInserts, entryVars, storeVars, pageVars, writeVars>>

\* node.pop_smallest(): entries.pop(0)
PopSmallest ==
    /\ node.cls # ""
    /\ node' = IF node.entries # <<>>
               THEN [node EXCEPT !.entries = ListPop(node.entries, 0)]
               ELSE node
    /\ op' = "pop_smallest"
    /\ arg' = NoArg
    /\ ret' = IF node.entries # <<>> THEN Ok(node.entries[1]) ELSE Raise("IndexError")
    /\ onlyInserts' = FALSE
    /\ UNCHANGED <<tree_conf, freshKeys, entryVars, storeVars, pageVars, writeVars>>

\* node.split_entries()
SplitEntries ==
    /\ node.cls # ""
    /\ node' = [node EXCEPT !.entries = Node_split_keep(node.entries)]
    /\ op' = "split_entries"
    /\ arg' = NoArg
    /\ ret' = Ok(Node_split_rv(node.entries))
    /\ onlyInserts' = FALSE
    /\ UNCHANGED <<tree_conf, freshKeys, entryVars, storeVars, pageVars, writeVars>>

NextNode ==
    NodeNew \/ InsertEntry \/ RemoveEntry \/ GetEntry \/ PopSmallest \/ SplitEntries

-----------------------------------------------------------------------------
\* A node written to a page and read back.

\* the page sizes of the trees whose nodes are dumped: PageSize, half of it (two
\* entries of 12 bytes fill it to the last byte), and 2 bytes less than half
PageSizes == {PageSize \div 2 - 2, PageSize \div 2, PageSize}

\* the entries of the nodes that are dumped: Records with an inline value or an
\* overflow page, References
DumpEntriesFor(conf, cls) ==
    IF cls \in RecordNodes
    THEN EntriesFor(conf, cls)
         \cup {Record_init(conf, k, None, None, Some(5)).val : k \in NodeKeys}
    ELSE EntriesFor(conf, cls)

\* the lists of entries of the nodes that are dumped: ascending by key
DumpEntryLists(conf, cls) ==
    {es \in UNION {[1..n -> DumpEntriesFor(conf, cls)] : n \in 0..MaxEntries} :
        \A i \in 1..(Len(es) - 1) : EntryLt(es[i], es[i + 1])}

InitPageVars ==
    /\ page_data = NoCall
    /\ page_node = NoCall

\* data = node.dump()
NodeDump ==
    /\ node.cls # ""
    /\ page_data = NoCall
    /\ page_data' = Node_dump(tree_conf, node)
    /\ UNCHANGED <<tree_conf, page_node, entryVars, nodeVars, storeVars, writeVars>>

\* Node.from_page_data(tree_conf, data, node.page)
NodeFromPageData ==
    /\ page_data.err = ""
    /\ page_node = NoCall
    /\ page_node' = Node_from_page_data(tree_conf, page_data.val, node.page)
    /\ UNCHANGED <<tree_conf, page_data, entryVars, nodeVars, storeVars, writeVars>>

NextPage == NodeDump \/ NodeFromPageData

-----------------------------------------------------------------------------
\* memory.py

\* read_from_file(file_fd, start, stop) on a file holding these bytes
read_from_file(file, start, stop) ==
    IF stop - start < 0 THEN Raise("AssertionError")
    ELSE IF start < stop /\ Len(file) < stop THEN Raise("ReachedEndOfFile")
    ELSE Ok(Slice(file, start, stop))

\* write_to_file(file_fd, dir_fileno, data) with the file positioned at pos: the
\* bytes of the file once every byte of data is written
write_to_file(file, pos, data) ==
    [i \in 1..(IF Len(file) > pos + Len(data) THEN Len(file) ELSE pos + Len(data)) |->
        IF i > pos /\ i <= pos + Len(data) THEN data[i - pos]
        ELSE IF i <= Len(file) THEN file[i] ELSE 0]

\* open_file_in_dir(path): the file is created empty when it does not exist
open_file_in_dir(file) == IF file = None THEN Some(<<>>) ELSE file

\* WAL._create_header(): the bytes of the WAL file after it
WAL_create_header(file, page_size) ==
    write_to_file(file, 0, ToBytes(page_size, OTHER_BYTES))

\* WAL._load_wal(): reads the header and does nothing with it
WAL_load_wal(file) == read_from_file(file, 0, OTHER_BYTES)

\* need_recovery as WAL.__init__ sets it, given the length of the file it opened
WAL_need_recovery(length) == length # 0

\* WAL.__init__(filename, page_size) on a WAL file that is absent (None) or holds
\* Some(bytes): the file after it and the object built, or the exception raised
WAL_init(file, page_size) ==
    LET fd == open_file_in_dir(file)[1]
        obj == [open |-> TRUE, page_size |-> page_size,
                committed_pages |-> <<>>, not_committed_pages |-> <<>>,
                need_recovery |-> WAL_need_recovery(Len(fd))]
    IN  IF Len(fd) = 0
        THEN [err |-> "", file |-> Some(WAL_create_header(fd, page_size)), obj |-> obj]
        ELSE [err |-> WAL_load_wal(fd).err, file |-> Some(fd), obj |-> obj]

\* FileMemory.get_node(page): the body is 'pass', so it returns None
FileMemory_get_node(m, file, page) == Ok(None)

\* FileMemory.set_node(node): the body is 'pass'
FileMemory_set_node(m, file, n) == Ok(None)

\* FileMemory.close(): the body is 'pass'
FileMemory_close(m) == Ok(None)

-----------------------------------------------------------------------------
\* WAL frames. memory.py declares FRAME_HEADER_LENGTH and nothing that writes a
\* frame; the frame is the one the specification of the WAL file describes.

\* [frame_type:1][target_page:4][page_image: page_size bytes]
WAL_frame(page_size, page) ==
    ToBytes(1, FRAME_TYPE_BYTES) \o ToBytes(page, PAGE_REFERENCE_BYTES) \o Zeros(page_size)

\* WAL.FRAME_HEADER_LENGTH
FRAME_HEADER_LENGTH == FRAME_TYPE_BYTES + PAGE_REFERENCE_BYTES

\* the number of whole frames after the header of a WAL file
FramesIn(file, page_size) == (Len(file) - OTHER_BYTES) \div (FRAME_HEADER_LENGTH + page_size)

-----------------------------------------------------------------------------
\* The page store and its WAL: sessions, calls, and the process stopping.

\* the page sizes a WAL is opened with
WalPageSizes == {PageSize, 2 * PageSize}

\* the nodes handed to set_node
SetNodes(conf) ==
    {[Node_init("LeafNode", p, None) EXCEPT !.entries = es] :
        p \in 1..MaxPage,
        es \in {<<>>, <<Record_init(conf, 10, Some(<<10>>), None, None).val>>}}

NoWAL == [open |-> FALSE]
NoMem == [open |-> FALSE]
NoMCall == [op |-> "", arg |-> 0, err |-> "", val |-> None]

InitStoreVars ==
    /\ mainFile = None
    /\ walFile = None
    /\ wal = NoWAL
    /\ mem = NoMem
    /\ lastSet = [p \in 1..MaxPage |-> None]
    /\ mret = NoMCall
    /\ preOpen = None

\* wal = WAL(filename, page_size)
WALOpen ==
    \E page_size \in WalPageSizes :
        LET r == WAL_init(walFile, page_size)
        IN  /\ preOpen' = Some([mainFile |-> mainFile, walFile |-> walFile,
                                page_size |-> page_size, stopped |-> ~wal.open])
            /\ walFile' = r.file
            /\ wal' = IF r.err = "" THEN r.obj ELSE NoWAL
            /\ mret' = [op |-> "WAL", arg |-> page_size, err |-> r.err, val |-> None]
            /\ UNCHANGED <<tree_conf, mainFile, mem, lastSet, entryVars, nodeVars, pageVars, writeVars>>

\* mem = FileMemory(filename, tree_conf): opens the backing file, then the WAL
FileMemoryNew ==
    LET r == WAL_init(walFile, tree_conf.page_size)
    IN  /\ preOpen' = Some([mainFile |-> mainFile, walFile |-> walFile,
                            page_size |-> tree_conf.page_size, stopped |-> ~wal.open])
        /\ mainFile' = open_file_in_dir(mainFile)
        /\ walFile' = r.file
        /\ wal' = IF r.err = "" THEN r.obj ELSE NoWAL
        /\ mem' = IF r.err = "" THEN [open |-> TRUE, cache |-> <<>>] ELSE NoMem
        /\ mret' = [op |-> "FileMemory", arg |-> tree_conf.page_size, err |-> r.err,
                    val |-> None]
        /\ UNCHANGED <<tree_conf, lastSet, entryVars, nodeVars, pageVars, writeVars>>

\* mem.get_node(page)
GetNode ==
    \E page \in 1..MaxPage :
        LET r == FileMemory_get_node(mem, mainFile, page)
        IN  /\ mem.open
            /\ mret' = [op |-> "get_node", arg |-> page, err |-> r.err, val |-> r.val]
            /\ UNCHANGED <<tree_conf, mainFile, walFile, wal, mem, lastSet, preOpen,
                           entryVars, nodeVars, pageVars, writeVars>>

\* mem.set_node(node)
SetNode ==
    \E n \in SetNodes(tree_conf) :
        LET r == FileMemory_set_node(mem, mainFile, n)
        IN  /\ mem.open
            /\ mret' = [op |-> "set_node", arg |-> n.page, err |-> r.err, val |-> r.val]
            /\ lastSet' = IF r.err = "" THEN [lastSet EXCEPT ![n.page] = Some(n)]
                          ELSE lastSet
            /\ UNCHANGED <<tree_conf, mainFile, walFile, wal, mem, preOpen,
                           entryVars, nodeVars, pageVars, writeVars>>

\* mem.close()
Close ==
    LET r == FileMemory_close(mem)
    IN  /\ mem.open
        /\ mret' = [op |-> "close", arg |-> 0, err |-> r.err, val |-> r.val]
        /\ UNCHANGED <<tree_conf, mainFile, walFile, wal, mem, lastSet, preOpen,
                       entryVars, nodeVars, pageVars, writeVars>>

\* a frame for one page is appended to the WAL file, no commit marker after it
WALAppendFrame ==
    \E page \in 1..MaxPage :
        /\ wal.open
        /\ walFile # None
        /\ Len(walFile[1]) >= OTHER_BYTES
        /\ FramesIn(walFile[1], wal.page_size) < MaxFrames
        /\ walFile' = Some(write_to_file(walFile[1], Len(walFile[1]),
                                         WAL_frame(wal.page_size, page)))
        /\ mret' = [op |-> "frame", arg |-> page, err |-> "", val |-> None]
        /\ UNCHANGED <<tree_conf, mainFile, wal, mem, lastSet, preOpen,
                       entryVars, nodeVars, pageVars, writeVars>>

\* the process stops: its objects are gone, the files stay as written
Crash ==
    /\ wal.open
    /\ wal' = NoWAL
    /\ mem' = NoMem
    /\ mret' = [op |-> "crash", arg |-> 0, err |-> "", val |-> None]
    /\ UNCHANGED <<tree_conf, mainFile, walFile, lastSet, preOpen, entryVars, nodeVars, pageVars, writeVars>>

\* the page store: a session and the calls made in it
NextMem == FileMemoryNew \/ GetNode \/ SetNode \/ Close

\* the WAL: opened alone or by the page store, written to, and the process stopping
NextWAL == WALOpen \/ FileMemoryNew \/ WALAppendFrame \/ Crash

-----------------------------------------------------------------------------
\* write_to_file, one file_fd.write call at a time.

\* written after 'written = file_fd.write(data[written:])'
write_to_file_written_assign(w, n) == n

\* written after 'written += file_fd.write(data[written:])'
write_to_file_written(w, n) == w + n

\* the bytes handed to write_to_file
WriteBytes == {97, 98}
WriteData == UNION {[1..n -> WriteBytes] : n \in 0..MaxData}

InitWriteVars ==
    /\ wr_pc = ""
    /\ wr_data = <<>>
    /\ wr_fsync = FALSE
    /\ written = 0
    /\ writes = 0
    /\ accepted = <<>>
    /\ starved = FALSE
    /\ synced = FALSE

\* write_to_file(file_fd, dir_fileno, data, fsync) is called: written = 0
WriteToFile ==
    \E data \in WriteData, fsync \in BOOLEAN :
        /\ wr_pc \in {"", "return"}
        /\ wr_pc' = "while"
        /\ wr_data' = data
        /\ wr_fsync' = fsync
        /\ written' = 0
        /\ writes' = 0
        /\ accepted' = <<>>
        /\ starved' = FALSE
        /\ synced' = FALSE
        /\ UNCHANGED <<tree_conf, entryVars, nodeVars, storeVars, pageVars>>

\* one turn of the loop: file_fd.write is offered data[written:] and accepts
\* its first n bytes, n from 0 to all of them
WriteLoop ==
    LET offered == Slice(wr_data, written, Len(wr_data))
    IN  /\ wr_pc = "while"
        /\ written < Len(wr_data)
        /\ writes < MaxWrites
        /\ \E n \in 0..Len(offered) :
                /\ accepted' = accepted \o Slice(offered, 0, n)
                /\ written' = write_to_file_written(written, n)
                /\ starved' = (starved \/ n = 0)
        /\ writes' = writes + 1
        /\ UNCHANGED <<wr_pc, wr_data, wr_fsync, synced>>
        /\ UNCHANGED <<tree_conf, entryVars, nodeVars, storeVars, pageVars>>

\* the loop is left, the file and its directory are fsynced when asked, and
\* write_to_file returns
WriteReturn ==
    /\ wr_pc = "while"
    /\ ~(written < Len(wr_data))
    /\ synced' = wr_fsync
    /\ wr_pc' = "return"
    /\ UNCHANGED <<wr_data, wr_fsync, written, writes, accepted, starved>>
    /\ UNCHANGED <<tree_conf, entryVars, nodeVars, storeVars, pageVars>>

NextWrite == WriteToFile \/ WriteLoop \/ WriteReturn

-----------------------------------------------------------------------------
\* The specifications.

InitNode ==
    /\ tree_conf \in {Conf(o, "IntSerializer") : o \in 2..MaxOrder}
    /\ InitEntryVars /\ InitNodeVars /\ InitStoreVars /\ InitPageVars /\ InitWriteVars
SpecNode == InitNode /\ [][NextNode]_vars

InitStore ==
    /\ tree_conf \in {Conf(o, "IntSerializer") : o \in 2..MaxOrder}
    /\ InitEntryVars /\ InitNodeVars /\ InitStoreVars /\ InitPageVars /\ InitWriteVars
SpecMem == InitStore /\ [][NextMem]_vars
SpecWAL == InitStore /\ [][NextWAL]_vars

\* a node of any class with its entries, of a tree of any of the page sizes; a
\* LeafNode is built with a next_page
InitPage ==
    /\ tree_conf \in {[Conf(MaxOrder, "IntSerializer") EXCEPT !.page_size = ps] :
                        ps \in PageSizes}
    /\ InitEntryVars /\ InitStoreVars /\ InitPageVars /\ InitWriteVars
    /\ \E cls \in NodeClasses, next_page \in OptPageIds :
            /\ cls # "LeafNode" => next_page = None
            /\ \E es \in DumpEntryLists(tree_conf, cls) :
                    node = [Node_init(cls, NodePage, next_page) EXCEPT !.entries = es]
    /\ op = "" /\ arg = NoArg /\ ret = NoCall
    /\ freshKeys = TRUE /\ onlyInserts = FALSE
SpecPage == InitPage /\ [][NextPage]_vars

\* write_to_file: every turn of the loop that can be taken is taken, and the
\* function returns once the loop is left
InitWrite ==
    /\ tree_conf = Conf(MaxOrder, "IntSerializer")
    /\ InitEntryVars /\ InitNodeVars /\ InitStoreVars /\ InitPageVars /\ InitWriteVars
SpecWrite ==
    InitWrite /\ [][NextWrite]_vars /\ WF_vars(WriteLoop) /\ WF_vars(WriteReturn)

InitEntry == tree_conf \in Confs /\ InitEntryVars /\ InitNodeVars /\ InitStoreVars /\ InitPageVars /\ InitWriteVars
SpecEntry == InitEntry /\ [][NextEntry]_vars

-----------------------------------------------------------------------------
\* C1

\* a Record the round trip is claimed for: its key fits, and it carries either an
\* inline value of length 0..value_size or an overflow page id >= 1
ValidRecord(conf, r) ==
    /\ r.cls = "Record"
    /\ KeyFits(conf, r.key)
    /\ \/ r.value # None /\ Len(r.value[1]) <= conf.value_size /\ r.overflow_page = None
       \/ r.value = None /\ r.overflow_page # None /\ r.overflow_page[1] >= 1

\* a Reference the round trip is claimed for: its key fits and its page ids are
\* ints of at most 4 bytes
ValidReference(conf, r) ==
    /\ r.cls = "Reference"
    /\ KeyFits(conf, r.key)
    /\ r.before # None /\ r.before[1] >= 0
    /\ r.after # None /\ r.after[1] >= 0

\* C1: a valid Record or Reference dumps without an exception, and the entry built
\* from the dumped bytes has the same key, value and overflow_page (Record), the
\* same key, before and after (Reference).
C1_RoundTrip ==
    (entry # NoEntry /\ (ValidRecord(tree_conf, entry) \/ ValidReference(tree_conf, entry)))
    => /\ dumped # NoCall => dumped.err = ""
       /\ loaded # NoCall =>
            /\ loaded.err = ""
            /\ loaded.val.key = entry.key
            /\ IF entry.cls = "Record"
               THEN /\ loaded.val.value = entry.value
                    /\ loaded.val.overflow_page = entry.overflow_page
               ELSE /\ loaded.val.before = entry.before
                    /\ loaded.val.after = entry.after

\* a Record with a multi-byte str key and an overflow page has been dumped and loaded
C1_Witness ==
    /\ entry # NoEntry
    /\ ValidRecord(tree_conf, entry)
    /\ tree_conf.serializer = "StrSerializer"
    /\ entry.key = <<233>>
    /\ entry.overflow_page = Some(2147483647)
    /\ loaded # NoCall

-----------------------------------------------------------------------------
\* C2

\* C2 as amended: Record.dump() on a Record whose key fits. With value and
\* overflow_page both set it raises AssertionError; with neither set it raises
\* TypeError, which is no assertion failure, and returns no bytes; with exactly
\* one of them set (an overflow page id >= 1) it returns the Record's bytes.
C2_DumpExactlyOne ==
    (entry # NoEntry /\ entry.cls = "Record" /\ dumped # NoCall)
    => /\ (entry.value # None /\ entry.overflow_page # None)
            => dumped = Raise("AssertionError")
       /\ (KeyFits(tree_conf, entry.key) /\ entry.value = None
           /\ entry.overflow_page = None)
            => dumped = Raise("TypeError")
       /\ ValidRecord(tree_conf, entry)
            => dumped.err = "" /\ Len(dumped.val) = Record_length(tree_conf)

\* dump() has been called on a Record with neither value nor overflow_page
C2_Witness ==
    /\ entry # NoEntry
    /\ entry.cls = "Record"
    /\ KeyFits(tree_conf, entry.key)
    /\ entry.value = None
    /\ entry.overflow_page = None
    /\ dumped # NoCall

\* C2 as claimed: with both set, or with neither set, dump() fails with an
\* assertion failure; with exactly one set it returns bytes.
C2_Original ==
    (entry # NoEntry /\ entry.cls = "Record" /\ dumped # NoCall
     /\ KeyFits(tree_conf, entry.key))
    => /\ ((entry.value # None) = (entry.overflow_page # None))
            => dumped = Raise("AssertionError")
       /\ ValidRecord(tree_conf, entry) => dumped.err = ""


-----------------------------------------------------------------------------
\* C5

\* adjacent References share their boundary: entries[i].after = entries[i+1].before
Chain(entries) ==
    \A i \in 1..(Len(entries) - 1) : entries[i].after = entries[i + 1].before

\* C5: in a Reference-holding node built empty and given only insert_entry calls
\* with pairwise distinct keys, adjacent entries share their boundary, and the
\* entry just inserted is in the node with the before and after it was given.
C5_InsertKeepsChain ==
    (node.cls \in ReferenceNodes /\ onlyInserts /\ freshKeys)
    => /\ Chain(node.entries)
       /\ op = "insert_entry" => \E i \in 1..Len(node.entries) : node.entries[i] = arg

\* a Reference was inserted between two others whose boundary it does not share
C5_Witness ==
    /\ node.cls \in ReferenceNodes
    /\ onlyInserts /\ freshKeys
    /\ op = "insert_entry"
    /\ Len(node.entries) = 3
    /\ node.entries[2] = arg
    /\ arg.before # arg.after

-----------------------------------------------------------------------------
\* C6

\* C6 as claimed: after any inserts (of keys not in the node) and deletes (remove_entry,
\* pop_smallest) on a Reference-holding node, adjacent entries share their boundary.
C6_ChainAfterDeletes ==
    (node.cls \in ReferenceNodes /\ freshKeys) => Chain(node.entries)

-----------------------------------------------------------------------------
\* C7

\* a LeafNode holding these entries is within its fan-out bounds
LeafWithinBounds(conf, entries) ==
    LET leaf == [Node_init("LeafNode", NodePage, None) EXCEPT !.entries = entries]
    IN  /\ MinChildren(conf, "LeafNode") <= NumChildren(leaf)
        /\ NumChildren(leaf) <= MaxChildren(conf, "LeafNode")

\* C7: split_entries on n entries keeps the lowest n div 2 and returns the other
\* n - n div 2, in order, none lost or duplicated; when a LeafNode holding order
\* records is split, the leaf that keeps the lower half and a leaf given the upper
\* half are both within min_children..max_children.
C7_SplitHalves ==
    [][op' = "split_entries" =>
        LET n == Len(node.entries)
        IN  /\ Len(node'.entries) = n \div 2
            /\ Len(ret'.val) = n - (n \div 2)
            /\ node'.entries \o ret'.val = node.entries
            /\ \A i \in 1..Len(node'.entries), j \in 1..Len(ret'.val) :
                    node'.entries[i].key <= ret'.val[j].key
            /\ (node.cls = "LeafNode" /\ n = tree_conf.order)
                => /\ LeafWithinBounds(tree_conf, node'.entries)
                   /\ LeafWithinBounds(tree_conf, ret'.val)
    ]_vars

\* a LeafNode of a tree of order 3 that held 3 records has been split
C7_Witness ==
    /\ op = "split_entries"
    /\ node.cls = "LeafNode"
    /\ tree_conf.order = 3
    /\ Len(node.entries) = 1
    /\ Len(ret.val) = 2

-----------------------------------------------------------------------------
\* C8

\* C8 as amended: num_children of a Reference-holding node is entries.count + 1
\* when it has at least one entry and 0 when it has none; of a Record-holding node
\* it is entries.count; can_add_entry is num_children < max_children and
\* can_delete_entry is num_children > min_children.
C8_NumChildren ==
    node.cls # "" =>
        LET count == Len(node.entries)
            expected == IF node.cls \in {"LonelyRootNode", "LeafNode"} THEN count
                        ELSE IF count = 0 THEN 0 ELSE count + 1
        IN  /\ NumChildren(node) = expected
            /\ CanAddEntry(tree_conf, node) = (expected < MaxChildren(tree_conf, node.cls))
            /\ CanDeleteEntry(tree_conf, node) = (expected > MinChildren(tree_conf, node.cls))

\* a RootNode has lost its last entry
C8_Witness ==
    /\ node.cls = "RootNode"
    /\ node.entries = <<>>
    /\ op = "remove_entry"
    /\ ret.err = ""

\* C8 as claimed: num_children of a Reference-holding node is entries.count + 1
\* whatever its number of entries, zero included.
C8_Original ==
    node.cls \in ReferenceNodes => NumChildren(node) = Len(node.entries) + 1


-----------------------------------------------------------------------------
\* C3

\* C3 as claimed: once set_node(n) has returned, get_node(n.page) returns a node
\* equal to n (its class, its page and its entries) until the page is set again.
C3_ReadYourWrites ==
    (mret.op = "get_node" /\ lastSet[mret.arg] # None)
    => mret.err = "" /\ mret.val = lastSet[mret.arg]

-----------------------------------------------------------------------------
\* C4

\* C4 as claimed: get_node(p) for a page never set and past the end of the backing
\* file raises ReachedEndOfFile, and the file and the cache stay as they were
\* (the file empty, the cache empty).
C4_ReachedEndOfFile ==
    (mret.op = "get_node" /\ lastSet[mret.arg] = None
     /\ mret.arg * tree_conf.page_size >= Len(mainFile[1]))
    => /\ mret.err = "ReachedEndOfFile"
       /\ mainFile = Some(<<>>)
       /\ mem.cache = <<>>

-----------------------------------------------------------------------------
\* C9

\* the WAL file holds a header and at least one frame
HasFrames(file) == file # None /\ Len(file[1]) > OTHER_BYTES

\* C9 as claimed: when the process stopped with frames in the WAL and no commit
\* marker, reopening succeeds, leaves the main file as it was, leaves a WAL without
\* the frames, and need_recovery is false.
C9_CrashBeforeCommit ==
    (mret.op = "WAL" /\ preOpen # None /\ preOpen[1].stopped
     /\ HasFrames(preOpen[1].walFile))
    => /\ mret.err = ""
       /\ mainFile = preOpen[1].mainFile
       /\ ~HasFrames(walFile)
       /\ wal.need_recovery = FALSE

-----------------------------------------------------------------------------
\* C10

\* C10 as claimed: opening again a WAL file that holds a header and no frame
\* succeeds, leaves the WAL file and the main file as they were, and gives a WAL
\* whose page size is the one stored in the header.
C10_CleanReopen ==
    (mret.op = "WAL" /\ preOpen # None /\ preOpen[1].walFile # None
     /\ Len(preOpen[1].walFile[1]) = OTHER_BYTES)
    => /\ mret.err = ""
       /\ walFile = preOpen[1].walFile
       /\ mainFile = preOpen[1].mainFile
       /\ wal.page_size = FromBytes(Slice(walFile[1], 0, OTHER_BYTES))

-----------------------------------------------------------------------------
\* C11

\* the header and the dumped entries of the node fit in a page of the tree
FitsInPage(conf, n) ==
    NODE_TYPE_BYTES + USED_PAGE_LENGTH_BYTES + PAGE_REFERENCE_BYTES
    + Len(n.entries) * Node_entry_length(conf, n.cls) <= conf.page_size

\* C11: dump() of a node whose entries are valid and whose next_page fits 4
\* bytes. When the 8-byte header and the entries fit in page_size it returns
\* page_size bytes: the node type, used_length and next_page, then the entries as
\* they dump, then zeros. When they do not fit it raises AssertionError and
\* returns nothing. It never returns bytes of another length.
C11_DumpPageSize ==
    (node.cls # "" /\ page_data # NoCall)
    => LET header_length == NODE_TYPE_BYTES + USED_PAGE_LENGTH_BYTES
                            + PAGE_REFERENCE_BYTES
           entry_length == Node_entry_length(tree_conf, node.cls)
           end_entries == header_length + Len(node.entries) * entry_length
           data == page_data.val
       IN  /\ page_data.err = "" => Len(data) = tree_conf.page_size
           /\ ~FitsInPage(tree_conf, node) => page_data = Raise("AssertionError")
           /\ FitsInPage(tree_conf, node) =>
                /\ page_data.err = ""
                /\ Len(data) = tree_conf.page_size
                /\ data[1] = Node_type_int(node.cls)
                /\ FromBytes(Slice(data, header_length - PAGE_REFERENCE_BYTES,
                                   header_length))
                     = (IF node.next_page = None THEN 0 ELSE node.next_page[1])
                /\ \A i \in 1..Len(node.entries) :
                        Slice(data, header_length + (i - 1) * entry_length,
                              header_length + i * entry_length)
                          = Entry_dump(tree_conf, node.entries[i]).val
                /\ \A i \in (end_entries + 1)..tree_conf.page_size : data[i] = 0

\* dump() was refused for a node whose entries alone are shorter than the page
C11_Witness ==
    /\ node.cls # ""
    /\ page_data = Raise("AssertionError")
    /\ Len(node.entries) * Node_entry_length(tree_conf, node.cls) < tree_conf.page_size

-----------------------------------------------------------------------------
\* C14

\* C14: for a node of any class whose entries are valid and fit in a page, and
\* whose next_page is None or a page id >= 1, from_page_data(conf, n.dump(),
\* n.page) raises nothing and returns a node of the same class and page with as
\* many entries, each with the fields of the entry at its place in n, and the
\* same next_page.
C14_PageRoundTrip ==
    (node.cls # "" /\ page_node # NoCall /\ node.next_page # Some(0))
    => /\ page_node.err = ""
       /\ page_node.val.cls = node.cls
       /\ page_node.val.page = node.page
       /\ Len(page_node.val.entries) = Len(node.entries)
       /\ page_node.val.entries = node.entries
       /\ page_node.val.next_page = node.next_page

\* a LeafNode with a next_page and a page filled to its last byte was read back
C14_Witness ==
    /\ node.cls = "LeafNode"
    /\ node.next_page = Some(5)
    /\ NODE_TYPE_BYTES + USED_PAGE_LENGTH_BYTES + PAGE_REFERENCE_BYTES
       + Len(node.entries) * Node_entry_length(tree_conf, node.cls)
         = tree_conf.page_size
    /\ \E i \in 1..Len(node.entries) : node.entries[i].overflow_page # None
    /\ page_node # NoCall

-----------------------------------------------------------------------------
\* C12

\* C12 as claimed: insert_entry of a key the node holds raises DuplicateKey and
\* leaves the entries as they were, so a node given only insert_entry calls never
\* holds two entries with the same key.
C12_NoDuplicateKey ==
    (node.cls # "" /\ onlyInserts)
    => /\ \A i, j \in 1..Len(node.entries) :
            node.entries[i].key = node.entries[j].key => i = j
       /\ (op = "insert_entry" /\ ~freshKeys) => ret.err = "DuplicateKey"

-----------------------------------------------------------------------------
\* C13

\* C13: remove_entry(key) and get_entry(key) for a key the node does not hold
\* raise ValueError ('No entry for key') and leave the node as it was; for a key
\* it holds, get_entry returns an entry with that key and leaves the node as it
\* was, and remove_entry takes out one entry, which has that key, and keeps the
\* others in their order.
C13_AbsentKey ==
    [][(op' \in {"remove_entry", "get_entry"} /\ node.cls # "") =>
        LET key == arg'.key
            present == \E i \in 1..Len(node.entries) : node.entries[i].key = key
        IN  /\ ~present => ret' = Raise("ValueError") /\ node' = node
            /\ (present /\ op' = "get_entry")
                => /\ ret'.err = ""
                   /\ ret'.val.key = key
                   /\ node' = node
            /\ (present /\ op' = "remove_entry")
                => /\ ret'.err = ""
                   /\ \E i \in 1..Len(node.entries) :
                        /\ node.entries[i].key = key
                        /\ node' = [node EXCEPT !.entries =
                                        SubSeq(node.entries, 1, i - 1)
                                        \o SubSeq(node.entries, i + 1, Len(node.entries))]
    ]_vars

\* remove_entry was refused on a node that holds other keys
C13_Witness ==
    /\ op = "remove_entry"
    /\ ret = Raise("ValueError")
    /\ Len(node.entries) >= 2

-----------------------------------------------------------------------------
\* C15

\* strictly ascending by key
Ascending(entries) ==
    \A i \in 1..(Len(entries) - 1) : entries[i].key < entries[i + 1].key

\* C15: while every insert_entry is given a key the node does not hold, the
\* entries are in strictly ascending key order after every call, and
\* pop_smallest on a node with entries takes out and returns its first entry,
\* whose key is below the key of every entry left.
C15_Ascending ==
    [][(node'.cls # "" /\ freshKeys') =>
        /\ Ascending(node'.entries)
        /\ (op' = "pop_smallest" /\ node.entries # <<>>)
            => /\ ret' = Ok(node.entries[1])
               /\ node'.entries = Tail(node.entries)
               /\ \A i \in 1..Len(node.entries) : ret'.val.key <= node.entries[i].key
               /\ \A i \in 1..Len(node'.entries) : ret'.val.key < node'.entries[i].key
    ]_vars

\* pop_smallest took the smallest of three entries that were not inserted in order
C15_Witness ==
    /\ freshKeys
    /\ op = "pop_smallest"
    /\ ret.err = ""
    /\ Len(node.entries) = 2
    /\ ret.val.key < node.entries[1].key

-----------------------------------------------------------------------------
\* C16

\* C16: in a write_to_file call whose file_fd.write calls each accepted at least
\* one byte, the calls made are no more than the bytes accepted, the bytes
\* accepted in call order are the first 'written' bytes of data, and once it has
\* returned they are data; and a call in its loop returns, unless a write
\* accepts no byte.
C16_WriteComplete ==
    /\ [](~starved => /\ writes <= written
                      /\ written <= Len(wr_data)
                      /\ accepted = Slice(wr_data, 0, written)
                      /\ wr_pc = "return" => accepted = wr_data)
    /\ (wr_pc = "while" ~> (wr_pc = "return" \/ starved))

\* write_to_file returned after one write call per byte of the longest data
C16_Witness ==
    /\ wr_pc = "return"
    /\ ~starved
    /\ Len(wr_data) = MaxData
    /\ writes = MaxData

====
